---- MODULE Spec2Model ----
(***************************************************************************)
(* Model of the panic-panda KTX texture loader (engine/assets/ktx_file.py) *)
(* and of the compute dispatcher (engine/compute_runner.py).               *)
(*                                                                         *)
(* A file is a sequence of bytes.  KTXFile.open and KTXFile.__init__ are   *)
(* modelled statement block by statement block, with `pc` holding the      *)
(* position of the decode in the source.  ComputeRunner is modelled by its *)
(* `running` set and one action per method.                                *)
(***************************************************************************)
EXTENDS Integers, Sequences, FiniteSets, TLC

VARIABLES
    input,          \* description of the file under decode (fixture, never read by the decoder)
    byteorder,      \* native byte order of the machine ("=I", ctypes c_uint32)
    data,           \* the bytes returned by f.read() in KTXFile.open
    pc,             \* position of the decode
    header,         \* the KtxHeader built by bytes_to_cstruct
    src,            \* data[offset::], the `data` argument of KTXFile.__init__
    self,           \* the KTXFile under construction
    loc,            \* locals of the mip loop of KTXFile.__init__
    result,         \* "none" while decoding, "ok", or the error raised
    texture,        \* the value returned by KTXFile.open (NoTexture if none)
    trace,          \* the stages executed so far, in order
    running,        \* ComputeRunner.running
    freed,          \* ComputeRunner.free() has deleted self.engine
    dispatched,     \* number of hvk.dispatch calls per data_compute
    recorded,       \* number of completed command recordings per data_compute
    callbacks,      \* number of callback() invocations per data_compute
    begun,          \* number of hvk.begin_command_buffer calls per data_compute
    last,           \* the outcome of the last ComputeRunner call
    calls           \* number of ComputeRunner.run calls made

ktxVars == <<input, byteorder, data, pc, header, src, self, loc, result, texture, trace>>
runVars == <<running, freed, begun, dispatched, recorded, callbacks, last, calls>>
vars == <<input, byteorder, data, pc, header, src, self, loc, result, texture, trace,
          running, freed, begun, dispatched, recorded, callbacks, last, calls>>

----------------------------------------------------------------------------
(* Bounds of the model *)

MaxMips == 3        \* largest number_of_mipmap_levels written in a file
MaxChunk == 2       \* largest mip payload size, in bytes
MaxCut == 5         \* most bytes cut from the end of a file
MaxKv == 2          \* largest key-value block, in bytes
MaxWidth == 5       \* largest pixel_width
MaxHeight == 3      \* largest pixel_height
MaxLayout == 2      \* largest number_of_array_elements / number_of_faces
MaxCalls == 4       \* most ComputeRunner.run calls in a behaviour
NumComputes == 2    \* number of distinct data_compute objects

Max(a, b) == IF a >= b THEN a ELSE b
Min(a, b) == IF a <= b THEN a ELSE b

----------------------------------------------------------------------------
(* Program constants *)

Ktx10HeaderData == <<171, 75, 84, 88, 32, 49, 49, 187, 13, 10, 26, 10>>

None == "None"

\* GL_TO_VK_FORMATS: a pair entry is a 2-tuple, a single entry (a Python int) a 1-tuple.
GL_TO_VK_FORMATS ==
       (33776 :> <<"FORMAT_BC1_RGB_UNORM_BLOCK", "FORMAT_BC1_RGB_SRGB_BLOCK">>)
    @@ (33777 :> <<"FORMAT_BC1_RGBA_UNORM_BLOCK", "FORMAT_BC1_RGBA_SRGB_BLOCK">>)
    @@ (33778 :> <<"FORMAT_BC2_UNORM_BLOCK", "FORMAT_BC2_SRGB_BLOCK">>)
    @@ (33779 :> <<"FORMAT_BC3_UNORM_BLOCK", "FORMAT_BC3_SRGB_BLOCK">>)
    @@ (36283 :> <<"FORMAT_BC4_UNORM_BLOCK">>)
    @@ (36284 :> <<"FORMAT_BC4_SNORM_BLOCK">>)
    @@ (36285 :> <<"FORMAT_BC5_UNORM_BLOCK">>)
    @@ (36286 :> <<"FORMAT_BC5_SNORM_BLOCK">>)
    @@ (36495 :> <<"FORMAT_BC6H_UFLOAT_BLOCK">>)
    @@ (36494 :> <<"FORMAT_BC6H_SFLOAT_BLOCK">>)
    @@ (36492 :> <<"FORMAT_BC7_UNORM_BLOCK">>)
    @@ (36493 :> <<"FORMAT_BC7_SRGB_BLOCK">>)

\* KtxHeader._fields_: the c_uint32 fields after the 12-byte id, in order.
KtxHeaderFields ==
    <<"endianness", "gl_type", "gl_type_size", "gl_format", "gl_internal_format",
      "gl_base_internal_format", "pixel_width", "pixel_height", "pixel_depth",
      "number_of_array_elements", "number_of_faces", "number_of_mipmap_levels",
      "bytes_of_key_value_data">>

\* sizeof(KtxHeader): c_ubyte*12 followed by thirteen c_uint32, no padding.
SizeofKtxHeader == Len(Ktx10HeaderData) + 4 * Len(KtxHeaderFields)

----------------------------------------------------------------------------
(* Bytes and native unsigned 32-bit integers *)

\* Python slicing seq[lo:hi] on 0-based positions: clamps to the sequence.
Slice(seq, lo, hi) ==
    LET l == Min(lo, Len(seq))
        h == Min(hi, Len(seq))
    IN IF h <= l THEN <<>> ELSE SubSeq(seq, l + 1, h)

\* struct.unpack_from("=I", buf, off)[0] and ctypes c_uint32, for off + 4 <= len(buf).
UnpackU32(buf, off, order) ==
    IF order = "little"
    THEN buf[off + 1] + 256 * buf[off + 2] + 65536 * buf[off + 3] + 16777216 * buf[off + 4]
    ELSE buf[off + 4] + 256 * buf[off + 3] + 65536 * buf[off + 2] + 16777216 * buf[off + 1]

\* struct.unpack_from raises struct.error unless 4 bytes are available at off.
CanUnpackU32(buf, off) == off + 4 <= Len(buf)

\* Offset of a c_uint32 field of KtxHeader: after the id, in _fields_ order.
FieldOffset(f) ==
    LET k == CHOOSE j \in 1..Len(KtxHeaderFields) : KtxHeaderFields[j] = f
    IN Len(Ktx10HeaderData) + 4 * (k - 1)

\* bytes_to_cstruct(data, KtxHeader): the first sizeof(KtxHeader) bytes laid over the fields.
bytes_to_cstruct(buf, order) ==
    [id |-> SubSeq(buf, 1, Len(Ktx10HeaderData)),
     endianness |-> UnpackU32(buf, FieldOffset("endianness"), order),
     gl_type |-> UnpackU32(buf, FieldOffset("gl_type"), order),
     gl_type_size |-> UnpackU32(buf, FieldOffset("gl_type_size"), order),
     gl_format |-> UnpackU32(buf, FieldOffset("gl_format"), order),
     gl_internal_format |-> UnpackU32(buf, FieldOffset("gl_internal_format"), order),
     gl_base_internal_format |-> UnpackU32(buf, FieldOffset("gl_base_internal_format"), order),
     pixel_width |-> UnpackU32(buf, FieldOffset("pixel_width"), order),
     pixel_height |-> UnpackU32(buf, FieldOffset("pixel_height"), order),
     pixel_depth |-> UnpackU32(buf, FieldOffset("pixel_depth"), order),
     number_of_array_elements |-> UnpackU32(buf, FieldOffset("number_of_array_elements"), order),
     number_of_faces |-> UnpackU32(buf, FieldOffset("number_of_faces"), order),
     number_of_mipmap_levels |-> UnpackU32(buf, FieldOffset("number_of_mipmap_levels"), order),
     bytes_of_key_value_data |-> UnpackU32(buf, FieldOffset("bytes_of_key_value_data"), order)]

----------------------------------------------------------------------------
(* The files handed to the decoder.  A file is described by the values its  *)
(* writer put in the header, the mip chunks it wrote, and the number of     *)
(* bytes lost from its end; FileBytes lays the description out as bytes.    *)

PackU32(v, order) ==
    LET b0 == v % 256
        b1 == (v \div 256) % 256
        b2 == (v \div 65536) % 256
        b3 == (v \div 16777216) % 256
    IN IF order = "little" THEN <<b0, b1, b2, b3>> ELSE <<b3, b2, b1, b0>>

\* The id written: the KTX magic, or the magic with its first or last byte changed.
IdBytes(kind) ==
    CASE kind = "ok" -> Ktx10HeaderData
      [] kind = "first" -> [Ktx10HeaderData EXCEPT ![1] = 170]
      [] kind = "last" -> [Ktx10HeaderData EXCEPT ![12] = 11]

\* Payload size of mip chunk i (1-based) of a file written with size pattern a.
ChunkSize(a, i) == (a + i) % (MaxChunk + 1)

\* Payload of chunk i: bytes that identify the chunk and the position.
ChunkPayload(a, i) == [j \in 1..ChunkSize(a, i) |-> 16 * i + j]

RECURSIVE MipSection(_, _, _)
MipSection(a, n, order) ==
    IF n = 0 THEN <<>>
    ELSE MipSection(a, n - 1, order) \o PackU32(ChunkSize(a, n), order) \o ChunkPayload(a, n)

FullBytes(in, order) ==
       IdBytes(in.magic)
    \o PackU32(67305985, order)
    \o PackU32(in.gl_type, order)
    \o PackU32(in.gl_type_size, order)
    \o PackU32(in.gl_format, order)
    \o PackU32(in.gl_internal_format, order)
    \o PackU32(6407, order)
    \o PackU32(in.pixel_width, order)
    \o PackU32(in.pixel_height, order)
    \o PackU32(in.pixel_depth, order)
    \o PackU32(in.number_of_array_elements, order)
    \o PackU32(in.number_of_faces, order)
    \o PackU32(in.number_of_mipmap_levels, order)
    \o PackU32(in.kv, order)
    \o [j \in 1..in.kv |-> 200 + j]
    \o MipSection(in.pattern, Max(in.number_of_mipmap_levels, 1), order)

FileBytes(in, order) ==
    LET full == FullBytes(in, order)
    IN SubSeq(full, 1, Len(full) - Min(in.cut, Len(full)))

Triplets == {<<0, 1, 0>>, <<5121, 1, 6408>>, <<0, 4, 0>>}
FormatKeys == DOMAIN GL_TO_VK_FORMATS
UnknownFormats == {0, 6408}

\* Files that differ in the header fields the validation stages look at.
HeaderInputs ==
    {[magic |-> m, gl_type |-> t[1], gl_type_size |-> t[2], gl_format |-> t[3],
      gl_internal_format |-> f, pixel_width |-> MaxWidth, pixel_height |-> MaxHeight,
      pixel_depth |-> 0, number_of_array_elements |-> a, number_of_faces |-> c,
      number_of_mipmap_levels |-> n, kv |-> 0, pattern |-> 0, cut |-> k] :
        m \in {"ok", "first", "last"}, t \in Triplets,
        f \in FormatKeys \cup UnknownFormats,
        a \in 0..MaxLayout, c \in 0..MaxLayout,
        n \in {2}, k \in {0, 1}}

\* Well-formed headers over mip sections of every shape, whole or cut short.
MipInputs ==
    {[magic |-> "ok", gl_type |-> 0, gl_type_size |-> 1, gl_format |-> 0,
      gl_internal_format |-> f, pixel_width |-> w, pixel_height |-> h,
      pixel_depth |-> d, number_of_array_elements |-> a, number_of_faces |-> 1,
      number_of_mipmap_levels |-> n, kv |-> v, pattern |-> p, cut |-> k] :
        f \in {33776, 36283}, w \in {0, 1, MaxWidth}, h \in {0, MaxHeight},
        d \in {0, 2}, a \in {0, 1}, n \in 0..MaxMips, v \in {0, MaxKv},
        p \in 0..MaxChunk, k \in 0..MaxCut}

\* Files cut inside the header.
ShortInputs ==
    {[in EXCEPT !.cut = Len(FullBytes(in, "little")) - l] :
        in \in {i \in HeaderInputs : i.cut = 0 /\ i.gl_internal_format = 36283
                                     /\ i.number_of_array_elements = 1},
        l \in {0, 11, 12, SizeofKtxHeader - 1}}

Inputs == HeaderInputs \cup MipInputs \cup ShortInputs

----------------------------------------------------------------------------
(* KTXFile: pure helpers *)

\* The error kinds.  IOError (length), IOError (id), ValueError (uncompressed),
\* ValueError (format not in the table), NotImplementedError, struct.error.
TruncatedFile == "TruncatedFile"
InvalidMagic == "InvalidMagic"
UnsupportedPixelFormat == "UnsupportedPixelFormat"
UnknownCompressionFormat == "UnknownCompressionFormat"
UnsupportedTextureLayout == "UnsupportedTextureLayout"
TruncatedMipData == "TruncatedMipData"

NoHeader == bytes_to_cstruct([j \in 1..SizeofKtxHeader |-> 0], "little")

\* length < sizeof(KtxHeader)
FileTooShort(length) == length < SizeofKtxHeader

\* Variant: only the first byte of the id is compared.
IdMismatchFirstByte(h) == h.id[1] # Ktx10HeaderData[1]

\* header.id[::] != Ktx10HeaderData[::]
IdMismatch(h) == h.id # Ktx10HeaderData

\* KTXFile.header_target
header_target(h) ==
    IF h.pixel_height = 0 THEN "IMAGE_TYPE_1D"
    ELSE IF h.pixel_depth > 0 THEN "IMAGE_TYPE_3D"
    ELSE "IMAGE_TYPE_2D"

\* is_compressed of KTXFile.header_format
IsCompressed(h) == h.gl_type = 0 /\ h.gl_type_size = 1 /\ h.gl_format = 0

\* GL_TO_VK_FORMATS.get(h.gl_internal_format, (None, None))
FormatsGet(key) ==
    IF key \in DOMAIN GL_TO_VK_FORMATS THEN GL_TO_VK_FORMATS[key] ELSE <<None, None>>

\* Variant: the last member of the entry, the sRGB one of a pair.
SelectVariantLast(formats) == formats[Len(formats)]

\* formats if isinstance(formats, int) else formats[0]
SelectVariant(formats) == formats[1]

\* Variant: the table lookup made before the compressed check.
header_format_lookup_first(h) ==
    LET fmt == SelectVariant(FormatsGet(h.gl_internal_format))
    IN IF fmt = None THEN [err |-> UnknownCompressionFormat, fmt |-> None]
       ELSE IF ~IsCompressed(h) THEN [err |-> UnsupportedPixelFormat, fmt |-> None]
       ELSE [err |-> "", fmt |-> fmt]

\* KTXFile.header_format: the error raised, or the format returned.
header_format(h) ==
    IF ~IsCompressed(h) THEN [err |-> UnsupportedPixelFormat, fmt |-> None]
    ELSE LET fmt == SelectVariant(FormatsGet(h.gl_internal_format))
         IN IF fmt = None THEN [err |-> UnknownCompressionFormat, fmt |-> None]
            ELSE [err |-> "", fmt |-> fmt]

\* Variant: the level count taken from the header as it is.
MipsLevelUnclamped(h) == h.number_of_mipmap_levels

\* self.mips_level = max(header.number_of_mipmap_levels, 1)
MipsLevel(h) == Max(h.number_of_mipmap_levels, 1)

\* Variant: the face count is not looked at.
LayoutUnsupportedArrayOnly(s) == s.array_element > 1

\* self.array_element > 1 or self.faces > 1
LayoutUnsupported(s) == s.array_element > 1 \/ s.faces > 1

\* Variant: extents clamped to 1 between levels.
HalveExtentClamped(e) == Max(e \div 2, 1)

\* mip_extent_width //= 2, mip_extent_height //= 2
HalveExtent(e) == e \div 2

\* Variant: the length prefix counted in the destination offset.
NextLocalOffsetWithPrefix(local_offset, mipmap_size) == local_offset + mipmap_size + 4

\* local_offset += mipmap_size
NextLocalOffset(local_offset, mipmap_size) == local_offset + mipmap_size

\* data_offset += 4, then data_offset += mipmap_size
NextDataOffset(data_offset, mipmap_size) == data_offset + 4 + mipmap_size

MipmapData(offset, size, width, height) ==
    [offset |-> offset, size |-> size, width |-> width, height |-> height]

NewSelf ==
    [width |-> 0, height |-> 0, depth |-> 0, mips_level |-> 0, array_element |-> 0,
     faces |-> 0, target |-> None, format |-> None, data |-> <<>>, mipmaps |-> <<>>]

NewLoc ==
    [i |-> 0, data_offset |-> 0, local_offset |-> 0,
     mip_extent_width |-> 0, mip_extent_height |-> 0]

----------------------------------------------------------------------------
(* KTXFile.open and KTXFile.__init__ *)

InitKtx ==
    /\ input \in Inputs
    /\ byteorder \in {"little", "big"}
    /\ data = FileBytes(input, byteorder)
    /\ pc = "open"
    /\ header = NoHeader
    /\ src = <<>>
    /\ self = NewSelf
    /\ loc = NewLoc
    /\ result = "none"
    /\ texture = <<>>
    /\ trace = <<>>

\* An exception leaves open(): no texture is returned.
Raise(err) ==
    /\ pc' = "done"
    /\ result' = err
    /\ texture' = <<>>

\* open, "File size check"
OpenSizeCheck ==
    /\ pc = "open"
    /\ trace' = Append(trace, "length")
    /\ IF FileTooShort(Len(data))
       THEN Raise(TruncatedFile)
       ELSE pc' = "header" /\ UNCHANGED <<result, texture>>
    /\ UNCHANGED <<input, byteorder, data, header, src, self, loc>>

\* open, "Header check", and the slice handed to KTXFile(path, header, data[offset::])
OpenHeaderCheck ==
    /\ pc = "header"
    /\ trace' = Append(trace, "magic")
    /\ LET h == bytes_to_cstruct(data, byteorder)
           offset == SizeofKtxHeader + h.bytes_of_key_value_data
       IN /\ header' = h
          /\ IF IdMismatch(h)
             THEN Raise(InvalidMagic) /\ UNCHANGED src
             ELSE /\ pc' = "init"
                  /\ src' = Slice(data, offset, Len(data))
                  /\ UNCHANGED <<result, texture>>
    /\ UNCHANGED <<input, byteorder, data, self, loc>>

\* __init__, "Main texture data" up to self.target
InitMain ==
    /\ pc = "init"
    /\ trace' = Append(trace, "fields")
    /\ self' = [NewSelf EXCEPT
                    !.width = header.pixel_width,
                    !.height = Max(header.pixel_height, 1),
                    !.depth = Max(header.pixel_depth, 1),
                    !.mips_level = MipsLevel(header),
                    !.array_element = Max(header.number_of_array_elements, 1),
                    !.faces = Max(header.number_of_faces, 1),
                    !.target = header_target(header)]
    /\ pc' = "format"
    /\ UNCHANGED <<input, byteorder, data, header, src, loc, result, texture>>

\* __init__, self.format = KTXFile.header_format(header), self.data, self.mipmaps
InitFormat ==
    /\ pc = "format"
    /\ trace' = Append(trace, "format")
    /\ LET r == header_format(header)
       IN IF r.err # ""
          THEN Raise(r.err) /\ UNCHANGED self
          ELSE /\ self' = [self EXCEPT !.format = r.fmt, !.data = <<>>, !.mipmaps = <<>>]
               /\ pc' = "layout"
               /\ UNCHANGED <<result, texture>>
    /\ UNCHANGED <<input, byteorder, data, header, src, loc>>

\* __init__, the array / cube check and the initialisation of the loop variables
InitLayout ==
    /\ pc = "layout"
    /\ trace' = Append(trace, "layout")
    /\ IF LayoutUnsupported(self)
       THEN Raise(UnsupportedTextureLayout) /\ UNCHANGED loc
       ELSE /\ loc' = [i |-> 0, data_offset |-> 0, local_offset |-> 0,
                       mip_extent_width |-> self.width,
                       mip_extent_height |-> self.height]
            /\ pc' = "loop"
            /\ UNCHANGED <<result, texture>>
    /\ UNCHANGED <<input, byteorder, data, header, src, self>>

\* __init__, one iteration of "for i in range(self.mips_level)"
InitMipLevel ==
    /\ pc = "loop"
    /\ loc.i < self.mips_level
    /\ trace' = Append(trace, "mip")
    /\ IF ~CanUnpackU32(src, loc.data_offset)
       THEN Raise(TruncatedMipData) /\ UNCHANGED <<self, loc>>
       ELSE LET mipmap_size == UnpackU32(src, loc.data_offset, byteorder)
                data_offset == loc.data_offset + 4
            IN /\ self' = [self EXCEPT
                    !.data = self.data \o Slice(src, data_offset, data_offset + mipmap_size),
                    !.mipmaps = Append(self.mipmaps,
                                       MipmapData(loc.local_offset, mipmap_size,
                                                  loc.mip_extent_width, loc.mip_extent_height))]
               /\ loc' = [i |-> loc.i + 1,
                          data_offset |-> NextDataOffset(loc.data_offset, mipmap_size),
                          local_offset |-> NextLocalOffset(loc.local_offset, mipmap_size),
                          mip_extent_width |-> HalveExtent(loc.mip_extent_width),
                          mip_extent_height |-> HalveExtent(loc.mip_extent_height)]
               /\ UNCHANGED <<pc, result, texture>>
    /\ UNCHANGED <<input, byteorder, data, header, src>>

\* the loop is exhausted: __init__ returns and open returns the texture
OpenReturn ==
    /\ pc = "loop"
    /\ loc.i >= self.mips_level
    /\ trace' = Append(trace, "return")
    /\ pc' = "done"
    /\ result' = "ok"
    /\ texture' = <<self>>
    /\ UNCHANGED <<input, byteorder, data, header, src, self, loc>>

----------------------------------------------------------------------------
(* ComputeRunner *)

DataComputes == 1..NumComputes

\* How far a run() that passed the `running` check gets before an exception
\* leaves it: the scene lookups and the group unpacking, the recording up to
\* run_device(before), the recording from hvk.dispatch to end_command_buffer,
\* run_app, or nowhere (the callback is invoked).
RunOutcomes == {"lookup", "before_dispatch", "after_dispatch", "finalize", "complete"}

Bump(f, d) == [f EXCEPT ![d] = f[d] + 1]

\* Variant: the membership test always fails.
AlreadyRunningNever(d, r) == FALSE

\* data_compute in self.running
AlreadyRunning(d, r) == d \in r

\* self.running.add(data_compute)
RunningAdd(r, d) == r \cup {d}

InitRunner ==
    /\ running = {}
    /\ freed = FALSE
    /\ begun = [d \in DataComputes |-> 0]
    /\ dispatched = [d \in DataComputes |-> 0]
    /\ recorded = [d \in DataComputes |-> 0]
    /\ callbacks = [d \in DataComputes |-> 0]
    /\ last = [op |-> "init", d |-> 0, out |-> "none"]
    /\ calls = 0

\* ComputeRunner.run, refused: data_compute is already in self.running
RunRefused(d) ==
    /\ calls < MaxCalls
    /\ AlreadyRunning(d, running)
    /\ calls' = calls + 1
    /\ last' = [op |-> "run", d |-> d, out |-> "RuntimeError"]
    /\ UNCHANGED <<running, freed, begun, dispatched, recorded, callbacks>>

\* ComputeRunner.run after free(): self.ctx reads the deleted self.engine
RunFreed(d) ==
    /\ calls < MaxCalls
    /\ ~AlreadyRunning(d, running)
    /\ freed
    /\ calls' = calls + 1
    /\ last' = [op |-> "run", d |-> d, out |-> "AttributeError"]
    /\ UNCHANGED <<running, freed, begun, dispatched, recorded, callbacks>>

\* ComputeRunner.run, from the lookups to the callback, stopped where o says
RunRecord(d, o) ==
    /\ calls < MaxCalls
    /\ ~AlreadyRunning(d, running)
    /\ ~freed
    /\ calls' = calls + 1
    /\ last' = [op |-> "run", d |-> d, out |-> o]
    /\ begun' = IF o # "lookup" THEN Bump(begun, d) ELSE begun
    /\ dispatched' = IF o \in {"after_dispatch", "finalize", "complete"}
                     THEN Bump(dispatched, d) ELSE dispatched
    /\ recorded' = IF o \in {"finalize", "complete"} THEN Bump(recorded, d) ELSE recorded
    /\ running' = IF o \in {"finalize", "complete"} THEN RunningAdd(running, d) ELSE running
    /\ callbacks' = IF o = "complete" THEN Bump(callbacks, d) ELSE callbacks
    /\ UNCHANGED freed

\* ComputeRunner.free
Free ==
    /\ ~freed
    /\ freed' = TRUE
    /\ last' = [op |-> "free", d |-> 0, out |-> "none"]
    /\ UNCHANGED <<running, begun, dispatched, recorded, callbacks, calls>>

----------------------------------------------------------------------------
(* Specifications *)

\* No file has been handed to the decoder.
IdleKtx ==
    /\ input = CHOOSE in \in MipInputs : in.cut = 0 /\ in.number_of_mipmap_levels = 1
    /\ byteorder = "little"
    /\ data = <<>>
    /\ pc = "idle"
    /\ header = NoHeader
    /\ src = <<>>
    /\ self = NewSelf
    /\ loc = NewLoc
    /\ result = "none"
    /\ texture = <<>>
    /\ trace = <<>>

Init == InitKtx /\ InitRunner

Next ==
    \/ OpenSizeCheck /\ UNCHANGED runVars
    \/ OpenHeaderCheck /\ UNCHANGED runVars
    \/ InitMain /\ UNCHANGED runVars
    \/ InitFormat /\ UNCHANGED runVars
    \/ InitLayout /\ UNCHANGED runVars
    \/ InitMipLevel /\ UNCHANGED runVars
    \/ OpenReturn /\ UNCHANGED runVars

\* One decode of one file.
Spec == Init /\ [][Next]_vars

InitR == IdleKtx /\ InitRunner

NextR ==
    \/ \E d \in DataComputes : RunRefused(d) /\ UNCHANGED ktxVars
    \/ \E d \in DataComputes : RunFreed(d) /\ UNCHANGED ktxVars
    \/ \E d \in DataComputes, o \in RunOutcomes : RunRecord(d, o) /\ UNCHANGED ktxVars
    \/ Free /\ UNCHANGED ktxVars

\* One ComputeRunner over any sequence of run and free calls.
SpecRunner == InitR /\ [][NextR]_vars

----------------------------------------------------------------------------
(* What the file under decode contains, read off its description.          *)

InLevels == Max(input.number_of_mipmap_levels, 1)

\* Bytes of the file after the header and the key-value block.
InSourceLen == Max(Len(data) - (SizeofKtxHeader + input.kv), 0)

\* Position in the source slice of the length prefix of chunk i (1-based).
RECURSIVE InChunkStart(_)
InChunkStart(i) ==
    IF i = 1 THEN 0 ELSE InChunkStart(i - 1) + 4 + ChunkSize(input.pattern, i - 1)

\* The length prefix of chunk i would be read past the end of the source slice.
InPrefixCut(i) == InChunkStart(i) + 4 > InSourceLen

\* The payload declared by chunk i is larger than the bytes that remain after its prefix.
InPayloadCut(i) ==
    /\ ~InPrefixCut(i)
    /\ ChunkSize(input.pattern, i) > InSourceLen - (InChunkStart(i) + 4)

\* The bytes of the payload of chunk i present in the file.
InPayload(i) ==
    Slice(ChunkPayload(input.pattern, i), 0, Max(InSourceLen - (InChunkStart(i) + 4), 0))

InHasHeader == Len(data) >= 64
InMagicOk == Slice(data, 0, 12) = <<171, 75, 84, 88, 32, 49, 49, 187, 13, 10, 26, 10>>
InCompressed == input.gl_type = 0 /\ input.gl_type_size = 1 /\ input.gl_format = 0
InKnownFormat == input.gl_internal_format \in
    {33776, 33777, 33778, 33779, 36283, 36284, 36285, 36286, 36495, 36494, 36492, 36493}
InLayoutOk == input.number_of_array_elements <= 1 /\ input.number_of_faces <= 1

\* Every stage before the mip slicing accepts the file.
InReachesMips == InHasHeader /\ InMagicOk /\ InCompressed /\ InKnownFormat /\ InLayoutOk

Returned == pc = "done" /\ result = "ok" /\ Len(texture) = 1

RECURSIVE SumSizes(_, _)
SumSizes(mm, n) == IF n = 0 THEN 0 ELSE SumSizes(mm, n - 1) + mm[n].size

SrgbFormats ==
    {"FORMAT_BC1_RGB_SRGB_BLOCK", "FORMAT_BC1_RGBA_SRGB_BLOCK", "FORMAT_BC2_SRGB_BLOCK",
     "FORMAT_BC3_SRGB_BLOCK", "FORMAT_BC7_SRGB_BLOCK"}

Count(seq, x) == Cardinality({k \in 1..Len(seq) : seq[k] = x})

IsPrefix(a, b) == Len(a) <= Len(b) /\ a = SubSeq(b, 1, Len(a))

----------------------------------------------------------------------------
(* Claims *)

\* C1: a decode that reaches the mip slicing fails with TruncatedMipData and
\* returns no texture whenever, at some level 1..mipLevels (the last one
\* included), the length prefix would be read past the end of the source slice
\* or the declared payload is larger than the bytes remaining after the prefix.
C1_TruncationAlwaysFails ==
    (pc = "done" /\ InReachesMips
        /\ \E i \in 1..InLevels : InPrefixCut(i) \/ InPayloadCut(i))
    => (result = TruncatedMipData /\ texture = <<>>)

\* C2: in every returned texture the sizes of the recorded mip levels add up
\* to the length of the data buffer.
C2_SizesSumToDataLength ==
    Returned => SumSizes(texture[1].mipmaps, Len(texture[1].mipmaps)) = Len(texture[1].data)

\* C3: in every returned texture the offset of level i is the sum of the
\* sizes of the levels before it (0 for the first level), and the bytes of
\* every level start at that offset of the data buffer.
C3_OffsetsContiguous ==
    Returned =>
        \A i \in 1..Len(texture[1].mipmaps) :
            /\ texture[1].mipmaps[i].offset = SumSizes(texture[1].mipmaps, i - 1)
            /\ (i = 1) => texture[1].mipmaps[i].offset = 0
            /\ Slice(texture[1].data, texture[1].mipmaps[i].offset,
                     texture[1].mipmaps[i].offset + texture[1].mipmaps[i].size) = InPayload(i)

\* A texture of three levels was returned, the third at a positive offset
\* after two levels of different sizes.
C3_Witness ==
    /\ Returned
    /\ Len(texture[1].mipmaps) >= 3
    /\ texture[1].mipmaps[2].offset > 0
    /\ texture[1].mipmaps[3].offset > texture[1].mipmaps[2].offset

\* C4 as stated: a buffer whose first 12 bytes differ from the KTX magic
\* fails with InvalidMagic, whatever its length and its other content.
C4_BadMagicAnyLength ==
    (pc = "done" /\ ~InMagicOk) => result = InvalidMagic

\* C4: a buffer of at least sizeof(KtxHeader) = 64 bytes whose first 12 bytes
\* differ from the KTX magic fails with InvalidMagic and returns no texture,
\* whatever the rest of its content; a shorter buffer fails with
\* TruncatedFile whatever its first bytes.
C4_BadMagicFails ==
    /\ (pc = "done" /\ InHasHeader /\ ~InMagicOk) => (result = InvalidMagic /\ texture = <<>>)
    /\ (pc = "done" /\ ~InHasHeader) => (result = TruncatedFile /\ texture = <<>>)

\* A full-length file whose id differs from the magic in its last byte only,
\* with an uncompressed triplet and two faces, was rejected for its id.
C4_Witness ==
    /\ pc = "done"
    /\ InHasHeader
    /\ data[1] = 171
    /\ data[12] # 10
    /\ ~InCompressed
    /\ input.number_of_faces = 2
    /\ result = InvalidMagic

\* C5 as stated: a header (of a full-length file with the KTX magic) that
\* declares two array elements or two faces fails with
\* UnsupportedTextureLayout, whatever the other header fields.
C5_TwoLayersAnyHeader ==
    (pc = "done" /\ InHasHeader /\ InMagicOk
        /\ (input.number_of_array_elements = 2 \/ input.number_of_faces = 2))
    => result = UnsupportedTextureLayout

\* C5: a header (of a full-length file with the KTX magic) that declares two
\* array elements or two faces fails with UnsupportedTextureLayout when the
\* triplet is the compressed one and glInternalFormat is a key of the table,
\* whatever the other fields and the mip data; with another triplet it fails
\* with UnsupportedPixelFormat, and with the compressed triplet and an
\* unknown glInternalFormat with UnknownCompressionFormat.
C5_TwoLayersFail ==
    (pc = "done" /\ InHasHeader /\ InMagicOk
        /\ (input.number_of_array_elements = 2 \/ input.number_of_faces = 2))
    => /\ texture = <<>>
       /\ (InCompressed /\ InKnownFormat) => result = UnsupportedTextureLayout
       /\ ~InCompressed => result = UnsupportedPixelFormat
       /\ (InCompressed /\ ~InKnownFormat) => result = UnknownCompressionFormat

\* A file with one array element, two faces, a supported format and whole
\* mip data was rejected for its layout.
C5_Witness ==
    /\ pc = "done"
    /\ input.number_of_array_elements = 1
    /\ input.number_of_faces = 2
    /\ InCompressed /\ InKnownFormat
    /\ input.cut = 0
    /\ result = UnsupportedTextureLayout

\* C6 as stated: with the compressed triplet, every key of the table resolves
\* to a linear identifier, the first member for a pair, never an sRGB one.
C6_NeverSrgb ==
    (InHasHeader /\ InMagicOk /\ InCompressed /\ InKnownFormat
        /\ Count(trace, "format") = 1 /\ result \in {"none", "ok", TruncatedMipData,
                                                      UnsupportedTextureLayout})
    => self.format \notin SrgbFormats

\* C6: with the compressed triplet, every key of the table resolves to a
\* member of its entry: the first, linear (UNORM) member for the four pair
\* entries (0x83F0 resolves to BC1_RGB_UNORM), the entry itself for the single
\* entries.  The result is an sRGB identifier for the key 0x8E8D only, whose
\* single entry is BC7_SRGB.
C6_FirstMemberSelected ==
    (InHasHeader /\ InMagicOk /\ InCompressed /\ InKnownFormat
        /\ Count(trace, "format") = 1)
    => /\ result \notin {UnsupportedPixelFormat, UnknownCompressionFormat}
       /\ (input.gl_internal_format = 33776) => self.format = "FORMAT_BC1_RGB_UNORM_BLOCK"
       /\ (input.gl_internal_format = 33777) => self.format = "FORMAT_BC1_RGBA_UNORM_BLOCK"
       /\ (input.gl_internal_format = 33778) => self.format = "FORMAT_BC2_UNORM_BLOCK"
       /\ (input.gl_internal_format = 33779) => self.format = "FORMAT_BC3_UNORM_BLOCK"
       /\ (input.gl_internal_format = 36283) => self.format = "FORMAT_BC4_UNORM_BLOCK"
       /\ self.format \in {GL_TO_VK_FORMATS[input.gl_internal_format][k] :
                              k \in 1..Len(GL_TO_VK_FORMATS[input.gl_internal_format])}
       /\ (self.format \in SrgbFormats) <=> (input.gl_internal_format = 36493)

\* The resolver has returned for a file whose glInternalFormat is 0x83F0.
C6_Witness ==
    /\ Count(trace, "format") = 1
    /\ input.gl_internal_format = 33776
    /\ InCompressed
    /\ self.format = "FORMAT_BC1_RGB_UNORM_BLOCK"

\* C7: in every returned texture the mip count is max(numberOfMipmapLevels, 1),
\* the mip list has that many entries, and entry i is the i-th
\* length-prefixed chunk of the file: its size is the i-th prefix and its
\* bytes are the bytes of that chunk.
C7_MipCount ==
    Returned =>
        /\ texture[1].mips_level = Max(input.number_of_mipmap_levels, 1)
        /\ Len(texture[1].mipmaps) = Max(input.number_of_mipmap_levels, 1)
        /\ \A i \in 1..Len(texture[1].mipmaps) :
            /\ texture[1].mipmaps[i].size = ChunkSize(input.pattern, i)
            /\ Slice(texture[1].data, texture[1].mipmaps[i].offset,
                     texture[1].mipmaps[i].offset + texture[1].mipmaps[i].size) = InPayload(i)

\* A texture of one level, of a positive size, was returned for a header
\* whose numberOfMipmapLevels is 0.
C7_Witness ==
    /\ Returned
    /\ input.number_of_mipmap_levels = 0
    /\ Len(texture[1].mipmaps) = 1
    /\ texture[1].mipmaps[1].size > 0

\* C8: in every returned texture level 0 records pixelWidth and
\* max(pixelHeight, 1), and every later level records the floor of half the
\* width and half the height of the level before, without a clamp to 1.
C8_ExtentsHalved ==
    Returned =>
        /\ texture[1].mipmaps[1].width = input.pixel_width
        /\ texture[1].mipmaps[1].height = Max(input.pixel_height, 1)
        /\ \A i \in 2..Len(texture[1].mipmaps) :
            /\ texture[1].mipmaps[i].width = texture[1].mipmaps[i - 1].width \div 2
            /\ texture[1].mipmaps[i].height = texture[1].mipmaps[i - 1].height \div 2

\* A texture was returned whose second level is 0 wide and 0 high after a
\* first level 1 wide and 1 high.
C8_Witness ==
    /\ Returned
    /\ Len(texture[1].mipmaps) >= 2
    /\ texture[1].mipmaps[1].width = 1
    /\ texture[1].mipmaps[1].height = 1
    /\ texture[1].mipmaps[2].width = 0
    /\ texture[1].mipmaps[2].height = 0

\* The error of the earliest stage that rejects the file, "" if none before
\* the mip slicing does.
InEarlyError ==
    IF ~InHasHeader THEN TruncatedFile
    ELSE IF ~InMagicOk THEN InvalidMagic
    ELSE IF ~InCompressed THEN UnsupportedPixelFormat
    ELSE IF ~InKnownFormat THEN UnknownCompressionFormat
    ELSE IF ~InLayoutOk THEN UnsupportedTextureLayout
    ELSE ""

StageOrder == <<"length", "magic", "fields", "format", "layout">>

\* C9: the stages run in the order length check, magic check, compressed
\* check, table lookup, layout check, mip slicing; a decode ends at the
\* first stage that rejects the file, with the error of that stage, and
\* reads no mip level once a stage has rejected the file.
C9_StagesInOrder ==
    /\ \A k \in 1..Len(trace) :
        IF k <= Len(StageOrder) THEN trace[k] = StageOrder[k]
        ELSE trace[k] = "mip" \/ (trace[k] = "return" /\ k = Len(trace))
    /\ (pc = "done" /\ InEarlyError # "") =>
        /\ result = InEarlyError
        /\ Count(trace, "mip") = 0
        /\ texture = <<>>
        /\ self.mipmaps = <<>>
    /\ (pc = "done" /\ InEarlyError = "") => result \in {"ok", TruncatedMipData}
    /\ (pc = "done") <=> (result # "none")

\* A file with an uncompressed triplet and two faces was rejected for its
\* pixel format, no mip level read.
C9_Witness ==
    /\ pc = "done"
    /\ InHasHeader /\ InMagicOk
    /\ ~InCompressed
    /\ ~InKnownFormat
    /\ input.number_of_faces = 2
    /\ result = UnsupportedPixelFormat
    /\ Count(trace, "mip") = 0

\* C10 as stated, its last clause: each data_compute is dispatched at most
\* once per ComputeRunner.
C10_DispatchedAtMostOnce ==
    \A d \in DataComputes : dispatched[d] <= 1

\* C10: the running set only grows; a run that completes the command
\* recording adds its data_compute to running; a run of a data_compute that
\* is in running raises RuntimeError, begins no recording, dispatches
\* nothing, invokes no callback and leaves running unchanged; so each
\* data_compute completes a recording at most once and is not dispatched
\* again once it is in running.
C10_RunningOnlyGrows ==
    [][/\ running \subseteq running'
       /\ \A d \in DataComputes :
            /\ (recorded'[d] > recorded[d]) => (d \in running' /\ d \notin running)
            /\ (d \in running /\ calls' = calls + 1 /\ last'.d = d) =>
                   /\ last'.out = "RuntimeError"
                   /\ running' = running
                   /\ begun' = begun
                   /\ dispatched' = dispatched
                   /\ recorded' = recorded
                   /\ callbacks' = callbacks
            /\ (d \in running) => /\ dispatched'[d] = dispatched[d]
                                  /\ callbacks'[d] = callbacks[d]
            /\ recorded'[d] <= 1
            /\ (d \in running') <=> (recorded'[d] = 1)]_vars

\* A data_compute whose recording completed was run again and refused.
C10_Witness ==
    /\ last.op = "run"
    /\ last.out = "RuntimeError"
    /\ last.d \in running
    /\ recorded[last.d] = 1
    /\ dispatched[last.d] = 1

====
